---- MODULE Spec2Model ----
(***************************************************************************)
(* USAspending Award Watcher (src/monitor.py): the change-detection        *)
(* engine (canonicalize_row, detect_changes, format_change_lines), the     *)
(* snapshot store (read_csv_if_exists, write_csv_atomic) and the run       *)
(* orchestrator (scrape_all_sites, main).                                  *)
(*                                                                         *)
(* A cell value (a Python str) is a sequence of one-character strings;     *)
(* a row (a Python dict) is a function from column names to cell values.   *)
(***************************************************************************)
EXTENDS Integers, Sequences, FiniteSets, TLC

\* ------------------------------------------------------------------------
\* Bounds of the model
\* ------------------------------------------------------------------------

\* Longest row sequence handed to detect_changes.
MaxRows == 2

\* ------------------------------------------------------------------------
\* Strings
\* ------------------------------------------------------------------------

SP == " "
NBSP == "nbsp"
EmptyStr == <<>>

Digits == {"0", "1", "2", "3", "4", "5", "6", "7", "8", "9"}

Range(s) == {s[i] : i \in 1..Len(s)}

SetMin(S) == CHOOSE x \in S : \A y \in S : x <= y
SetMax(S) == CHOOSE x \in S : \A y \in S : x >= y

RECURSIVE LStrip(_)
LStrip(s) ==
    IF s # <<>> /\ Head(s) = SP THEN LStrip(Tail(s)) ELSE s

RECURSIVE RStrip(_)
RStrip(s) ==
    IF s # <<>> /\ s[Len(s)] = SP THEN RStrip(SubSeq(s, 1, Len(s) - 1)) ELSE s

\* str.strip()
Strip(s) == RStrip(LStrip(s))

\* re.sub(r"\s+", " ", t): every run of whitespace becomes one space.
RECURSIVE CollapseFrom(_, _)
CollapseFrom(t, i) ==
    IF i > Len(t) THEN <<>>
    ELSE IF t[i] = SP /\ i > 1 /\ t[i - 1] = SP THEN CollapseFrom(t, i + 1)
    ELSE <<t[i]>> \o CollapseFrom(t, i + 1)

normalize_space(s) ==
    LET t == [i \in 1..Len(s) |-> IF s[i] = NBSP THEN SP ELSE s[i]]
    IN Strip(CollapseFrom(t, 1))

IsDigitOrDot(c) == c \in Digits \cup {"."}

normalize_amount(s0) ==
    LET s == Strip(s0)
        neg == (s # <<>> /\ s[1] = "-") \/ ("(" \in Range(s) /\ ")" \in Range(s))
        digits == SelectSeq(s, IsDigitOrDot)
    IN IF digits = <<>> THEN <<"0">>
       ELSE IF neg THEN <<"-">> \o digits ELSE digits

\* ------------------------------------------------------------------------
\* Rows
\* ------------------------------------------------------------------------

KeyCol == "Modification Number"
AmountCols == {"Amount"}

\* dict.get(c, "")
Get(r, c) == IF c \in DOMAIN r THEN r[c] ELSE EmptyStr

canonicalize_row(row) ==
    [k \in DOMAIN row |->
        IF k \in AmountCols THEN normalize_amount(normalize_space(row[k]))
        ELSE normalize_space(row[k])]

\* The column names of the model, sorted as sort_keys=True sorts them.
SortedCols == <<"Action Type", "Amount", "Modification Number">>

RECURSIVE JsonItems(_, _)
JsonItems(r, cols) ==
    IF cols = <<>> THEN <<>>
    ELSE LET c == Head(cols)
             item == <<"\"", c, "\"", ":", SP, "\"">> \o r[c] \o <<"\"">>
         IN IF Len(cols) = 1 THEN item
            ELSE item \o <<",", SP>> \o JsonItems(r, Tail(cols))

\* json.dumps(r, sort_keys=True, ensure_ascii=False); no cell of the model
\* holds a character that JSON escapes.
json_dumps(r) ==
    <<"{">> \o JsonItems(r, SelectSeq(SortedCols, LAMBDA c : c \in DOMAIN r)) \o <<"}">>

row_key(r) ==
    LET v == Get(r, KeyCol)
    IN IF v # EmptyStr THEN v ELSE json_dumps(r)

\* ------------------------------------------------------------------------
\* detect_changes
\* ------------------------------------------------------------------------

Canon(rows) == [i \in 1..Len(rows) |-> canonicalize_row(rows[i])]

\* {row_key(r): r for r in norm}: a dict keeps the position of a key's first
\* insertion and the value of its last.
DictKeys(norm) ==
    LET first(i) == \A j \in 1..(i - 1) : row_key(norm[j]) # row_key(norm[i])
        idx == {i \in 1..Len(norm) : first(i)}
        RECURSIVE build(_)
        build(i) == IF i > Len(norm) THEN <<>>
                    ELSE IF i \in idx THEN <<row_key(norm[i])>> \o build(i + 1)
                    ELSE build(i + 1)
    IN build(1)

HasKey(norm, k) == \E i \in 1..Len(norm) : row_key(norm[i]) = k

DictGet(norm, k) ==
    norm[SetMax({i \in 1..Len(norm) : row_key(norm[i]) = k})]

\* list.index(x): the first position holding a value equal to x.
IndexOf(seq, x) == SetMin({i \in 1..Len(seq) : seq[i] = x})

NewEntriesCanonical(old_rows, new_rows) ==
    LET old_norm == Canon(old_rows)
        new_norm == Canon(new_rows)
        ks == SelectSeq(DictKeys(new_norm), LAMBDA k : ~HasKey(old_norm, k))
    IN [i \in 1..Len(ks) |-> DictGet(new_norm, ks[i])]

NewEntriesWithRemoved(old_rows, new_rows) ==
    LET old_norm == Canon(old_rows)
        new_norm == Canon(new_rows)
        ks == SelectSeq(DictKeys(new_norm), LAMBDA k : ~HasKey(old_norm, k))
        gone == SelectSeq(DictKeys(old_norm), LAMBDA k : ~HasKey(new_norm, k))
    IN [i \in 1..Len(ks) |-> new_rows[IndexOf(new_norm, DictGet(new_norm, ks[i]))]]
       \o [i \in 1..Len(gone) |-> old_rows[IndexOf(old_norm, DictGet(old_norm, gone[i]))]]

NewEntries(old_rows, new_rows) ==
    LET old_norm == Canon(old_rows)
        new_norm == Canon(new_rows)
        ks == SelectSeq(DictKeys(new_norm), LAMBDA k : ~HasKey(old_norm, k))
    IN [i \in 1..Len(ks) |-> new_rows[IndexOf(new_norm, DictGet(new_norm, ks[i]))]]

UpdatedComparesRaw(old_rows, new_rows) ==
    LET old_norm == Canon(old_rows)
        new_norm == Canon(new_rows)
        ks == SelectSeq(DictKeys(new_norm),
                        LAMBDA k : HasKey(old_norm, k)
                                   /\ new_rows[IndexOf(new_norm, DictGet(new_norm, k))]
                                        # DictGet(old_norm, k))
    IN [i \in 1..Len(ks) |->
          <<ks[i],
            old_rows[IndexOf(old_norm, DictGet(old_norm, ks[i]))],
            new_rows[IndexOf(new_norm, DictGet(new_norm, ks[i]))]>>]

UpdatedEntries(old_rows, new_rows) ==
    LET old_norm == Canon(old_rows)
        new_norm == Canon(new_rows)
        ks == SelectSeq(DictKeys(new_norm),
                        LAMBDA k : HasKey(old_norm, k)
                                   /\ DictGet(new_norm, k) # DictGet(old_norm, k))
    IN [i \in 1..Len(ks) |->
          <<ks[i],
            old_rows[IndexOf(old_norm, DictGet(old_norm, ks[i]))],
            new_rows[IndexOf(new_norm, DictGet(new_norm, ks[i]))]>>]

detect_changes(old_rows, new_rows) ==
    [new_entries |-> NewEntries(old_rows, new_rows),
     updated_entries |-> UpdatedEntries(old_rows, new_rows)]

\* ------------------------------------------------------------------------
\* format_change_lines
\* ------------------------------------------------------------------------

InfoCols == <<"Action Date", "Amount", "Action Type", "Transaction Description">>

\* " - New entry (Mod #m) | col: value | ...": the label, the Mod number and
\* the listed (column, value) parts.
NewLine(row) ==
    LET cols == SelectSeq(InfoCols, LAMBDA c : Get(row, c) # EmptyStr)
    IN [kind |-> "New entry",
        mod |-> Get(row, KeyCol),
        details |-> [i \in 1..Len(cols) |-> <<cols[i], row[cols[i]]>>]]

ChangedColsRaw(headers, old_r, new_r) ==
    SelectSeq(headers, LAMBDA c : Get(old_r, c) # Get(new_r, c))

ChangedCols(headers, old_r, new_r) ==
    SelectSeq(headers,
              LAMBDA c : Get(canonicalize_row(old_r), c) # Get(canonicalize_row(new_r), c))

\* " - Updated (Mod #m): col: old -> new; ...": the label, the Mod number
\* and the listed (column, old value, new value) details.
UpdatedLine(headers, u) ==
    LET cols == ChangedCols(headers, u[2], u[3])
    IN [kind |-> "Updated",
        mod |-> IF KeyCol \in DOMAIN u[3] THEN u[3][KeyCol] ELSE u[1],
        details |-> [i \in 1..Len(cols) |->
                        <<cols[i], Get(u[2], cols[i]), Get(u[3], cols[i])>>]]

format_change_lines(headers, new_entries, updated_entries) ==
    LET shown == SelectSeq(updated_entries,
                           LAMBDA u : ChangedCols(headers, u[2], u[3]) # <<>>)
    IN [i \in 1..Len(new_entries) |-> NewLine(new_entries[i])]
       \o [i \in 1..Len(shown) |-> UpdatedLine(headers, shown[i])]

\* ------------------------------------------------------------------------
\* The pure diff engine applied to bounded inputs
\* ------------------------------------------------------------------------

VARIABLES diff_old, diff_new, diff_headers, diff_out, diff_lines, diff_pc

diffVars == <<diff_old, diff_new, diff_headers, diff_out, diff_lines, diff_pc>>

VARIABLES
    files,            \* the state directory: path -> file content or Absent
    pc,               \* where the process is
    site_idx,         \* position in SITES (scrape loop) or in scraped (main loop)
    attempt,          \* scrape_table_rows: attempt number for the current site
    scraped,          \* scrape_all_sites: results
    any_changes,      \* main: any_changes
    digest_by_name,   \* main: digest_by_name
    dry_run,          \* DRY_RUN
    w_call,           \* the latest call of write_csv_atomic
    ret,              \* what main returned
    runs,             \* runs started so far
    last_saved,       \* this run: what the run before it replaced each snapshot from
    fetched,          \* this run: how the fetch of each site ended
    run_snap,         \* this run: the snapshot files when the run started
    diffed,           \* this run: the result of detect_changes for each site
    processed,        \* this run: the sites the main loop has handled
    saved,            \* this run: the sites whose snapshot was replaced
    notifier_calls,   \* this run: calls of send_email_digest
    notified_digest,  \* this run: the digest handed to send_email_digest
    observed          \* what a concurrent reader of a snapshot path last saw

mainVars == <<files, pc, site_idx, attempt, scraped, any_changes, digest_by_name,
              dry_run, w_call, ret, runs, last_saved, fetched, run_snap, diffed,
              processed, saved, notifier_calls, notified_digest, observed>>


vars == <<diffVars, mainVars>>

Headers3 == <<"Modification Number", "Amount", "Action Type">>
Headers2 == <<"Modification Number", "Amount">>

\* The headers of a table whose thead has no th with a text.
Headers0 == <<>>

Row3(m, a, t) == ("Modification Number" :> m) @@ ("Amount" :> a) @@ ("Action Type" :> t)
Row2(m, a) == ("Modification Number" :> m) @@ ("Amount" :> a)

\* zip(headers, r) with no headers: a record without columns.
Row0 == <<>>

\* Rows with a Mod number and rows without one, amounts that differ in
\* format only ("$1", "1") or in value ("(1)"), action types that differ in
\* white space only or in value.
DiffRows3 ==
    {Row3(<<"1">>, <<"$", "1">>, <<"X">>),
     Row3(<<"1">>, <<"1">>, <<NBSP, "X", SP>>),
     Row3(<<"1">>, <<"1">>, <<"Y">>),
     Row3(<<"1">>, <<"(", "1", ")">>, <<"Y">>),
     Row3(EmptyStr, <<"$", "1">>, <<"X">>),
     Row3(EmptyStr, <<"1">>, <<"X">>),
     Row3(EmptyStr, <<"1">>, <<"Y">>)}

\* Rows of a table that has no "Action Type" column.
DiffRows2 ==
    {Row2(<<"1">>, <<"1">>),
     Row2(EmptyStr, <<"$", "1">>)}

SeqsUpTo(S, n) == UNION {[1..k -> S] : k \in 0..n}

\* The rows of one table share the table's columns.
DiffInputs == SeqsUpTo(DiffRows3, MaxRows) \cup SeqsUpTo(DiffRows2, MaxRows)

HeadersOf(rows) ==
    IF rows # <<>> /\ DOMAIN rows[1] = Range(Headers2) THEN Headers2 ELSE Headers3

NoDiff == [new_entries |-> <<>>, updated_entries |-> <<>>]

DiffInputInit ==
    /\ diff_old \in DiffInputs
    /\ diff_new \in DiffInputs
    /\ diff_headers = HeadersOf(diff_new)
    /\ diff_out = NoDiff
    /\ diff_lines = <<>>
    /\ diff_pc = "input"

\* No diff-engine input: the state of these variables while main runs.
DiffIdle ==
    /\ diff_old = <<>>
    /\ diff_new = <<>>
    /\ diff_headers = Headers3
    /\ diff_out = NoDiff
    /\ diff_lines = <<>>
    /\ diff_pc = "idle"

DetectChanges ==
    /\ diff_pc = "input"
    /\ diff_out' = detect_changes(diff_old, diff_new)
    /\ diff_pc' = "diffed"
    /\ UNCHANGED <<diff_old, diff_new, diff_headers, diff_lines>>
    /\ UNCHANGED mainVars

FormatChangeLines ==
    /\ diff_pc = "diffed"
    /\ diff_lines' = format_change_lines(diff_headers, diff_out.new_entries,
                                         diff_out.updated_entries)
    /\ diff_pc' = "formatted"
    /\ UNCHANGED <<diff_old, diff_new, diff_headers, diff_out>>
    /\ UNCHANGED mainVars

\* ------------------------------------------------------------------------
\* Properties of the diff engine
\* ------------------------------------------------------------------------

KeyOf(row) == row_key(canonicalize_row(row))

KeySet(rows) == {KeyOf(rows[i]) : i \in 1..Len(rows)}

\* Every identity key occurs on one row only.
DistinctKeys(rows) ==
    \A i, j \in 1..Len(rows) : i # j => KeyOf(rows[i]) # KeyOf(rows[j])

\* The row that stands for key k: the last row carrying it.
LastRowOfKey(rows, k) ==
    rows[SetMax({i \in 1..Len(rows) : KeyOf(rows[i]) = k})]

\* The first row whose canonical form is that of row r.
FirstRowLike(rows, r) ==
    rows[SetMin({i \in 1..Len(rows) : canonicalize_row(rows[i]) = canonicalize_row(r)})]

\* C1: detect_changes(rows, rows) returns no new entry and no updated entry,
\* for any row sequence: repeated keys, empty key columns and amounts in any
\* format included.
DiffNoOpOnIdenticalInput ==
    (diff_pc # "input" /\ diff_old = diff_new)
        => diff_out = NoDiff

\* C1 witness: detect_changes has run on a sequence and itself, and the
\* sequence holds two rows of one key with different contents.
DiffNoOpWitness ==
    /\ diff_pc = "diffed"
    /\ diff_old = diff_new
    /\ \E i, j \in 1..Len(diff_new) :
          /\ KeyOf(diff_new[i]) = KeyOf(diff_new[j])
          /\ canonicalize_row(diff_new[i]) # canonicalize_row(diff_new[j])

\* C2 as stated: detect_changes([], new_rows) returns every row of any
\* non-empty new_rows, in order and in its original form, and no updated
\* entry.
BootstrapReturnsAllRows ==
    (diff_pc # "input" /\ diff_old = <<>> /\ diff_new # <<>>)
        => diff_out = [new_entries |-> diff_new, updated_entries |-> <<>>]

\* C2 as amended: detect_changes([], new_rows) returns new_rows itself and no
\* updated entry when no two rows of new_rows share an identity key.
BootstrapReturnsDistinctRows ==
    (diff_pc # "input" /\ diff_old = <<>> /\ diff_new # <<>> /\ DistinctKeys(diff_new))
        => diff_out = [new_entries |-> diff_new, updated_entries |-> <<>>]

\* C2 witness: a bootstrap diff of two rows with different keys, one of them
\* not in canonical form.
BootstrapWitness ==
    /\ diff_pc = "diffed"
    /\ diff_old = <<>>
    /\ Len(diff_new) = 2
    /\ DistinctKeys(diff_new)
    /\ \E i \in 1..2 : canonicalize_row(diff_new[i]) # diff_new[i]

\* C3 as stated: when every row of new_rows has a row of old_rows with the
\* same key and the same canonical content, detect_changes returns nothing.
DeletionInvisibleAnyRow ==
    (/\ diff_pc # "input"
     /\ \A j \in 1..Len(diff_new) : \E i \in 1..Len(diff_old) :
           /\ KeyOf(diff_old[i]) = KeyOf(diff_new[j])
           /\ canonicalize_row(diff_old[i]) = canonicalize_row(diff_new[j]))
        => diff_out = NoDiff

\* C3 as amended: when every key of new_rows is a key of old_rows and the
\* last row carrying it in old_rows has the canonical content of the last
\* row carrying it in new_rows, detect_changes returns nothing, whatever
\* keys of old_rows are absent from new_rows.
DeletionInvisible ==
    (/\ diff_pc # "input"
     /\ \A k \in KeySet(diff_new) :
           /\ k \in KeySet(diff_old)
           /\ canonicalize_row(LastRowOfKey(diff_old, k))
                = canonicalize_row(LastRowOfKey(diff_new, k)))
        => diff_out = NoDiff

\* C3 witness: a diff in which new_rows keeps a row of old_rows and a key of
\* old_rows is gone from new_rows.
DeletionWitness ==
    /\ diff_pc = "diffed"
    /\ diff_new # <<>>
    /\ KeySet(diff_new) \subseteq KeySet(diff_old)
    /\ KeySet(diff_old) # KeySet(diff_new)
    /\ \A k \in KeySet(diff_new) :
          canonicalize_row(LastRowOfKey(diff_old, k))
            = canonicalize_row(LastRowOfKey(diff_new, k))
    /\ diff_out = NoDiff

\* The header columns whose canonical values differ between two rows.
DifferingCols(headers, old_r, new_r) ==
    SelectSeq(headers,
              LAMBDA c : Get(canonicalize_row(old_r), c) # Get(canonicalize_row(new_r), c))

\* The "Updated" lines rendered for key k.
UpdatedLinesOf(k) ==
    {q \in 1..Len(diff_lines) :
        diff_lines[q].kind = "Updated" /\ normalize_space(diff_lines[q].mod) = k}

ExpectedDetails(cols, old_r, new_r) ==
    [i \in 1..Len(cols) |-> <<cols[i], Get(old_r, cols[i]), Get(new_r, cols[i])>>]

\* C4 as stated: for any old row and new row of one key whose canonical
\* contents differ, the key is reported as updated and one line is rendered
\* that lists exactly the header columns whose canonical values differ, with
\* the rows' original values.
UpdateReportedForAnyRowPair ==
    diff_pc = "formatted" =>
        \A i \in 1..Len(diff_old), j \in 1..Len(diff_new) :
            (/\ KeyOf(diff_old[i]) = KeyOf(diff_new[j])
             /\ canonicalize_row(diff_old[i]) # canonicalize_row(diff_new[j]))
            => /\ \E p \in 1..Len(diff_out.updated_entries) :
                     diff_out.updated_entries[p][1] = KeyOf(diff_new[j])
               /\ Cardinality(UpdatedLinesOf(KeyOf(diff_new[j]))) = 1
               /\ \A q \in UpdatedLinesOf(KeyOf(diff_new[j])) :
                     diff_lines[q].details
                       = ExpectedDetails(DifferingCols(diff_headers, diff_old[i], diff_new[j]),
                                         diff_old[i], diff_new[j])

\* C4 as amended: for a key whose last old row and last new row differ in
\* canonical content, the key is reported once in updated_entries; when some
\* header column's canonical value differs, one line is rendered for it that
\* lists exactly those columns, with the original values of the first old
\* and new rows that have those canonical contents; when none differs, no
\* line is rendered for it.
UpdateReportedWithColumnIsolation ==
    diff_pc = "formatted" =>
        \A k \in KeySet(diff_old) \cap KeySet(diff_new) :
            LET wo == LastRowOfKey(diff_old, k)
                wn == LastRowOfKey(diff_new, k)
                ro == FirstRowLike(diff_old, wo)
                rn == FirstRowLike(diff_new, wn)
                cols == DifferingCols(diff_headers, wo, wn)
            IN canonicalize_row(wo) # canonicalize_row(wn)
               => /\ Cardinality({p \in 1..Len(diff_out.updated_entries) :
                                    diff_out.updated_entries[p][1] = k}) = 1
                  /\ IF cols = <<>> THEN UpdatedLinesOf(k) = {}
                     ELSE /\ Cardinality(UpdatedLinesOf(k)) = 1
                          /\ \A q \in UpdatedLinesOf(k) :
                                diff_lines[q].details = ExpectedDetails(cols, ro, rn)

\* C4 witness: an update of one key in which "Amount" changes its format only
\* and "Action Type" its value, rendered as one line that lists "Action Type"
\* alone.
ColumnIsolationWitness ==
    /\ diff_pc = "formatted"
    /\ Len(diff_out.updated_entries) = 1
    /\ diff_out.updated_entries[1][2]["Amount"] # diff_out.updated_entries[1][3]["Amount"]
    /\ Len(diff_lines) = 1
    /\ diff_lines[1].kind = "Updated"
    /\ Len(diff_lines[1].details) = 1
    /\ diff_lines[1].details[1][1] = "Action Type"

\* ------------------------------------------------------------------------
\* Snapshot store: the state directory
\* ------------------------------------------------------------------------

\* The tracked awards, in the order of SITES (two of them in the model).
Sites == <<"EBANGA", "TEMBEXA">>
Names == Range(Sites)

\* Scrape retries
MAX_SCRAPE_RETRIES == 3

\* Runs of main that the model follows.
MaxRuns == 2

\* A path of the state directory: no file, or a file and its records.
Absent == [exists |-> FALSE, data |-> <<>>]
File(data) == [exists |-> TRUE, data |-> data]

\* STATE_DIR / f"{name}.csv" and path.with_suffix(path.suffix + ".tmp")
CsvPath(name) == <<name, "csv">>
TmpPath(name) == <<name, "csv.tmp">>
Paths == {CsvPath(n) : n \in Names} \cup {TmpPath(n) : n \in Names}

\* list(row.keys()): a row's columns in insertion order, which is page column
\* order for every row of the model.
KeysOf(row) == SelectSeq(Headers3, LAMBDA c : c \in DOMAIN row)

\* The data of a file is the sequence of the CSV records written to it so
\* far: the header record (column names), then one record of cells per row.
CsvRecord(fieldnames, row) == [i \in 1..Len(fieldnames) |-> Get(row, fieldnames[i])]

CsvContent(rows) ==
    <<KeysOf(rows[1])>> \o [i \in 1..Len(rows) |-> CsvRecord(KeysOf(rows[1]), rows[i])]

\* csv.DictReader: the first record names the fields of the others, and a
\* record without fields (a blank line of the file) is skipped.
read_csv_if_exists(f) ==
    IF ~f.exists \/ f.data = <<>> THEN <<>>
    ELSE LET fieldnames == f.data[1]
             records == SelectSeq(Tail(f.data), LAMBDA r : r # <<>>)
         IN [i \in 1..Len(records) |->
                [c \in Range(fieldnames) |->
                    records[i][CHOOSE j \in 1..Len(fieldnames) : fieldnames[j] = c]]]

\* Path.replace: an atomic rename of src over dst.
Replace(fs, src, dst) ==
    [p \in DOMAIN fs |-> IF p = dst THEN fs[src] ELSE IF p = src THEN Absent ELSE fs[p]]

WriteInPlace(name) == CsvPath(name)

\* The file that write_csv_atomic opens and writes.
WriteTarget(name) == TmpPath(name)

TruncatedOnEmptyRows(fs, name) == [fs EXCEPT ![CsvPath(name)] = File(<<>>)]

\* write_csv_atomic with no rows returns at once.
ReturnOnEmptyRows(fs, name) == fs

\* ------------------------------------------------------------------------
\* State of a run
\* ------------------------------------------------------------------------


\* A name that is not a key of scraped, of digest_by_name.
NotScraped == [ok |-> FALSE, headers |-> <<>>, rows |-> <<>>]
NoEntry == [present |-> FALSE, lines |-> <<>>]
Entry(lines) == [present |-> TRUE, lines |-> lines]

NoCall == [name |-> "", rows |-> <<>>, pre |-> Absent, caller |-> "none"]
NoDiffCall == [called |-> FALSE, out |-> NoDiff]
NoObs == [name |-> "", file |-> Absent]
NoReturn == <<>>

WritePcs == {"w_open", "w_header", "w_rows"}
StoppedPcs == {"idle", "done", "failed", "crashed"}

\* What a page shows on one attempt: a table (headers, records) or a
\* Playwright timeout.  Scraped cells have their white space normalised by
\* the page script.
Timeout == [timed_out |-> TRUE, headers |-> <<>>, rows |-> <<>>]

Table(headers, rows) == [timed_out |-> FALSE, headers |-> headers, rows |-> rows]

Mod1 == Row3(<<"1">>, <<"$", "1">>, <<"X">>)
Mod1Changed == Row3(<<"1">>, <<"1">>, <<"Y">>)
Mod2 == Row3(<<"2">>, <<"1">>, <<"X">>)
Mod1Narrow == Row2(<<"1">>, <<"$", "1">>)

Tables ==
    {Table(Headers3, <<>>),
     Table(Headers3, <<Mod1>>),
     Table(Headers3, <<Mod1, Mod2>>),
     Table(Headers3, <<Mod1Changed>>),
     Table(Headers2, <<Mod1Narrow>>),
     Table(Headers0, <<Row0>>)}

PageOutcomes == Tables \cup {Timeout}

SnapshotCsv == [n \in Names |-> files[CsvPath(n)]]

MainInit ==
    /\ files = [p \in Paths |-> Absent]
    /\ pc = "idle"
    /\ site_idx = 1
    /\ attempt = 1
    /\ scraped = [n \in Names |-> NotScraped]
    /\ any_changes = FALSE
    /\ digest_by_name = [n \in Names |-> NoEntry]
    /\ dry_run \in BOOLEAN
    /\ w_call = NoCall
    /\ ret = NoReturn
    /\ runs = 0
    /\ last_saved = [n \in Names |-> NotScraped]
    /\ fetched = [n \in Names |-> "pending"]
    /\ run_snap = [n \in Names |-> Absent]
    /\ diffed = [n \in Names |-> NoDiffCall]
    /\ processed = {}
    /\ saved = {}
    /\ notifier_calls = 0
    /\ notified_digest = [n \in Names |-> NoEntry]
    /\ observed = NoObs

\* ------------------------------------------------------------------------
\* scrape_all_sites
\* ------------------------------------------------------------------------

\* A scheduled run begins: main is entered and scrape_all_sites starts.
StartRun ==
    /\ pc \in StoppedPcs
    /\ runs < MaxRuns
    /\ pc' = "scrape"
    /\ site_idx' = 1
    /\ attempt' = 1
    /\ scraped' = [n \in Names |-> NotScraped]
    /\ any_changes' = FALSE
    /\ digest_by_name' = [n \in Names |-> NoEntry]
    /\ ret' = NoReturn
    /\ runs' = runs + 1
    /\ last_saved' = [n \in Names |-> IF n \in saved THEN scraped[n] ELSE NotScraped]
    /\ fetched' = [n \in Names |-> "pending"]
    /\ run_snap' = SnapshotCsv
    /\ diffed' = [n \in Names |-> NoDiffCall]
    /\ processed' = {}
    /\ saved' = {}
    /\ notifier_calls' = 0
    /\ notified_digest' = [n \in Names |-> NoEntry]
    /\ UNCHANGED <<diffVars, files, dry_run, w_call, observed>>

\* The first position at or after i whose site is a key of the dict d.
NextKey(d, i) ==
    SetMin({j \in i..Len(Sites) : d[Sites[j]].ok} \cup {Len(Sites) + 1})

AbortAfterFailedScrape(i) == Len(Sites) + 1

\* scrape_all_sites catches the error of one site and goes on to the next.
SiteAfterFailedScrape(i) == i + 1

\* One attempt of scrape_table_rows for the current site.  A table without
\* records is an error, as a timeout is; the last failed attempt ends the
\* site without a result.
ScrapeAttempt ==
    /\ pc = "scrape"
    /\ \E o \in PageOutcomes :
        LET n == Sites[site_idx]
            failed == o.timed_out \/ o.rows = <<>>
            last == failed /\ attempt = MAX_SCRAPE_RETRIES
            next == IF failed THEN SiteAfterFailedScrape(site_idx) ELSE site_idx + 1
            res == IF failed THEN scraped
                   ELSE [scraped EXCEPT ![n] = [ok |-> TRUE, headers |-> o.headers,
                                                rows |-> o.rows]]
        IN /\ scraped' = res
           /\ IF failed /\ ~last
              THEN /\ attempt' = attempt + 1
                   /\ UNCHANGED <<diffVars, pc, site_idx, ret, fetched>>
              ELSE /\ attempt' = 1
                   /\ fetched' = [fetched EXCEPT ![n] =
                                    IF ~failed THEN "ok"
                                    ELSE IF o.timed_out THEN "timeout" ELSE "no rows"]
                   /\ IF next <= Len(Sites)
                      THEN /\ site_idx' = next
                           /\ UNCHANGED <<diffVars, pc, ret>>
                      ELSE IF \A m \in Names : ~res[m].ok
                      THEN /\ pc' = "done"
                           /\ ret' = <<0>>
                           /\ UNCHANGED site_idx
                      ELSE /\ pc' = "loop"
                           /\ site_idx' = NextKey(res, 1)
                           /\ UNCHANGED ret
    /\ UNCHANGED <<diffVars, files, any_changes, digest_by_name, dry_run, w_call, runs, last_saved, run_snap,
                   diffed, processed, saved, notifier_calls, notified_digest, observed>>

\* ------------------------------------------------------------------------
\* main: the loop over scraped
\* ------------------------------------------------------------------------

\* The loop goes on to the next scraped site, or ends.
LoopPcAfter(i) == IF NextKey(scraped, i + 1) > Len(Sites) THEN "notify" ELSE "loop"

\* One iteration of the loop up to its call of write_csv_atomic, if any.
ProcessEntity ==
    /\ pc = "loop"
    /\ LET n == Sites[site_idx]
           headers == scraped[n].headers
           new_rows == scraped[n].rows
           old_rows == read_csv_if_exists(files[CsvPath(n)])
           d == detect_changes(old_rows, new_rows)
           diffs == old_rows # <<>> /\ new_rows # <<>>
           changed == diffs /\ (d.new_entries # <<>> \/ d.updated_entries # <<>>)
           writes == (old_rows = <<>> /\ new_rows # <<>>) \/ changed
       IN /\ processed' = processed \cup {n}
          /\ diffed' = IF diffs THEN [diffed EXCEPT ![n] = [called |-> TRUE, out |-> d]]
                       ELSE diffed
          /\ any_changes' = (any_changes \/ changed)
          /\ digest_by_name' =
                IF changed
                THEN [digest_by_name EXCEPT ![n] =
                        Entry(format_change_lines(headers, d.new_entries, d.updated_entries))]
                ELSE digest_by_name
          /\ IF writes
             THEN /\ w_call' = [name |-> n, rows |-> new_rows, pre |-> files[CsvPath(n)],
                                caller |-> "main"]
                  /\ pc' = "w_open"
                  /\ UNCHANGED site_idx
             ELSE /\ pc' = LoopPcAfter(site_idx)
                  /\ site_idx' = NextKey(scraped, site_idx + 1)
                  /\ UNCHANGED w_call
    /\ UNCHANGED <<diffVars, files, attempt, scraped, dry_run, ret, runs, last_saved, fetched, run_snap, saved,
                   notifier_calls, notified_digest, observed>>

\* ------------------------------------------------------------------------
\* write_csv_atomic, step by step
\* ------------------------------------------------------------------------

\* write_csv_atomic returns to its caller: the loop of main, or a direct caller.
ReturnFromWrite ==
    IF w_call.caller = "main"
    THEN /\ pc' = LoopPcAfter(site_idx)
         /\ site_idx' = NextKey(scraped, site_idx + 1)
    ELSE /\ pc' = "idle"
         /\ UNCHANGED site_idx

\* "if not rows: return", else tmp.open("w"): the file is created or truncated.
WriteOpen ==
    /\ pc = "w_open"
    /\ IF w_call.rows = <<>>
       THEN /\ files' = ReturnOnEmptyRows(files, w_call.name)
            /\ ReturnFromWrite
       ELSE /\ files' = [files EXCEPT ![WriteTarget(w_call.name)] = File(<<>>)]
            /\ pc' = "w_header"
            /\ UNCHANGED site_idx
    /\ UNCHANGED <<diffVars, attempt, scraped, any_changes, digest_by_name, dry_run, w_call, ret,
                   runs, last_saved, fetched, run_snap, diffed, processed, saved, notifier_calls,
                   notified_digest, observed>>

\* writer.writeheader()
WriteHeader ==
    /\ pc = "w_header"
    /\ files' = [files EXCEPT ![WriteTarget(w_call.name)] =
                    File(<<KeysOf(w_call.rows[1])>>)]
    /\ pc' = "w_rows"
    /\ UNCHANGED <<diffVars, site_idx, attempt, scraped, any_changes, digest_by_name, dry_run,
                   w_call, ret, runs, last_saved, fetched, run_snap, diffed, processed, saved,
                   notifier_calls, notified_digest, observed>>

\* writer.writerows(rows): one more record reaches the file.
WriteRow ==
    /\ pc = "w_rows"
    /\ LET t == WriteTarget(w_call.name)
           k == Len(files[t].data)
       IN /\ k <= Len(w_call.rows)
          /\ files' = [files EXCEPT ![t] =
                          File(Append(files[t].data,
                                      CsvRecord(KeysOf(w_call.rows[1]), w_call.rows[k])))]
    /\ UNCHANGED <<diffVars, pc, site_idx, attempt, scraped, any_changes, digest_by_name, dry_run,
                   w_call, ret, runs, last_saved, fetched, run_snap, diffed, processed, saved,
                   notifier_calls, notified_digest, observed>>

\* The file is closed with every record in it, and tmp.replace(path).
WriteReplace ==
    /\ pc = "w_rows"
    /\ Len(files[WriteTarget(w_call.name)].data) = Len(w_call.rows) + 1
    /\ files' = Replace(files, WriteTarget(w_call.name), CsvPath(w_call.name))
    /\ saved' = IF w_call.caller = "main" THEN saved \cup {w_call.name} ELSE saved
    /\ ReturnFromWrite
    /\ UNCHANGED <<diffVars, attempt, scraped, any_changes, digest_by_name, dry_run, w_call, ret,
                   runs, last_saved, fetched, run_snap, diffed, processed, notifier_calls,
                   notified_digest, observed>>

\* The process is killed in the middle of write_csv_atomic.
Crash ==
    /\ pc \in WritePcs
    /\ pc' = "crashed"
    /\ UNCHANGED <<diffVars, files, site_idx, attempt, scraped, any_changes, digest_by_name,
                   dry_run, w_call, ret, runs, last_saved, fetched, run_snap, diffed, processed,
                   saved, notifier_calls, notified_digest, observed>>

\* ------------------------------------------------------------------------
\* main: the digest
\* ------------------------------------------------------------------------

RollBackSnapshots(fs, snap) ==
    [p \in DOMAIN fs |-> IF p[2] = "csv" THEN snap[p[1]] ELSE fs[p]]

\* send_email_digest raises: main has no handler, the exception ends the
\* process and the state directory stays as it is.
AfterSendFailure(fs, snap) == fs

\* "if any_changes and digest_by_name": the preview of a dry run, or the one
\* call of send_email_digest, which returns or raises; then "return 0".
Notify ==
    /\ pc = "notify"
    /\ \E raised \in BOOLEAN :
        LET sends == any_changes /\ (\E n \in Names : digest_by_name[n].present)
                     /\ ~dry_run
        IN /\ notifier_calls' = IF sends THEN notifier_calls + 1 ELSE notifier_calls
           /\ notified_digest' = IF sends THEN digest_by_name ELSE notified_digest
           /\ IF sends /\ raised
              THEN /\ pc' = "failed"
                   /\ files' = AfterSendFailure(files, run_snap)
                   /\ UNCHANGED ret
              ELSE /\ pc' = "done"
                   /\ ret' = <<0>>
                   /\ UNCHANGED files
    /\ UNCHANGED <<diffVars, site_idx, attempt, scraped, any_changes, digest_by_name,
                   dry_run, w_call, runs, last_saved, fetched, run_snap, diffed, processed, saved,
                   observed>>

\* ------------------------------------------------------------------------
\* Around the program: a direct caller of the store and a concurrent reader
\* ------------------------------------------------------------------------

SaveInputs == {t.rows : t \in Tables}

\* write_csv_atomic is called on its own, while main is not running, with one
\* of the given row sequences.
SaveCallWith(inputs) ==
    /\ pc \in StoppedPcs
    /\ \E n \in Names, rows \in inputs :
          w_call' = [name |-> n, rows |-> rows, pre |-> files[CsvPath(n)],
                     caller |-> "direct"]
    /\ pc' = "w_open"
    /\ UNCHANGED <<diffVars, files, site_idx, attempt, scraped, any_changes,
                   digest_by_name, dry_run, ret, runs, last_saved, fetched, run_snap, diffed,
                   processed, saved, notifier_calls, notified_digest, observed>>

SaveCall == SaveCallWith(SaveInputs)

SaveNoRows == SaveCallWith({<<>>})

\* Another process reads a snapshot path, at any moment.
ReaderRead ==
    /\ \E n \in Names : observed' = [name |-> n, file |-> files[CsvPath(n)]]
    /\ UNCHANGED <<diffVars, files, pc, site_idx, attempt, scraped, any_changes,
                   digest_by_name, dry_run, w_call, ret, runs, last_saved, fetched, run_snap, diffed,
                   processed, saved, notifier_calls, notified_digest>>

\* ------------------------------------------------------------------------
\* Specifications
\* ------------------------------------------------------------------------

Init == MainInit /\ DiffIdle

Next ==
    \/ StartRun
    \/ ScrapeAttempt
    \/ ProcessEntity
    \/ WriteOpen
    \/ WriteHeader
    \/ WriteRow
    \/ WriteReplace
    \/ Crash
    \/ Notify

\* The scheduled runs of main.
Spec == Init /\ [][Next]_vars

SaveNext == Next \/ SaveNoRows

\* The runs of main, and direct calls of write_csv_atomic with no rows
\* between them.
SpecSave == Init /\ [][SaveNext]_vars

StoreInit == Init /\ dry_run = FALSE

StoreNext ==
    \/ SaveCall
    \/ WriteOpen
    \/ WriteHeader
    \/ WriteRow
    \/ WriteReplace
    \/ Crash
    \/ ReaderRead

\* The snapshot store on its own: calls of write_csv_atomic, a crash at any
\* step of one, and a concurrent reader of the snapshot paths.
SpecStore == StoreInit /\ [][StoreNext]_vars

DiffInit == DiffInputInit /\ MainInit /\ dry_run = FALSE

DiffNext == DetectChanges \/ FormatChangeLines

\* detect_changes and format_change_lines applied to the bounded inputs.
SpecDiff == DiffInit /\ [][DiffNext]_vars

\* ------------------------------------------------------------------------
\* Properties of the snapshot store
\* ------------------------------------------------------------------------

\* What write_csv_atomic leaves at a snapshot path when it has written rows.
Written(rows) == File(CsvContent(rows))

\* No file, or a file that holds every record of one row set.
CompleteFiles == {Absent} \cup {Written(rows) : rows \in SaveInputs \ {<<>>}}

WriteUnderWay == pc \in WritePcs \cup {"crashed"} /\ w_call.caller # "none"

\* C5: at every step of write_csv_atomic, and after a crash at any step, the
\* snapshot path holds the complete old snapshot (or nothing, when there was
\* none) or the complete new one, and that is all a reader ever sees there.
SnapshotAtomicity ==
    /\ \A n \in Names : files[CsvPath(n)] \in CompleteFiles
    /\ WriteUnderWay =>
          \/ files[CsvPath(w_call.name)] = w_call.pre
          \/ /\ w_call.rows # <<>>
             /\ files[CsvPath(w_call.name)] = Written(w_call.rows)
    /\ observed.file \in CompleteFiles

\* C5 witness: the writer crashed with the temporary file holding a part of
\* the new snapshot, and the reader has read the old snapshot, still whole.
SnapshotAtomicityWitness ==
    /\ pc = "crashed"
    /\ w_call.rows # <<>>
    /\ w_call.pre.exists
    /\ w_call.pre # Written(w_call.rows)
    /\ files[TmpPath(w_call.name)].exists
    /\ Len(files[TmpPath(w_call.name)].data) \in 1..Len(w_call.rows)
    /\ observed.name = w_call.name
    /\ observed.file = w_call.pre

\* C6: write_csv_atomic called with no rows leaves the snapshot path as it
\* was (a file stays, no file appears), and a site whose table came back with
\* no rows keeps its snapshot, gets no diff and no digest entry.
EmptyFetchProtection ==
    /\ (w_call.caller # "none" /\ w_call.rows = <<>>)
          => files[CsvPath(w_call.name)] = w_call.pre
    /\ \A n \in Names :
          fetched[n] = "no rows"
             => /\ files[CsvPath(n)] = run_snap[n]
                /\ ~diffed[n].called
                /\ ~digest_by_name[n].present

\* C6 witness: a run found no rows for a site that has a snapshot, and after
\* the run write_csv_atomic was called with no rows on that snapshot and has
\* returned.
EmptyFetchWitness ==
    /\ pc = "idle"
    /\ w_call.caller = "direct"
    /\ w_call.rows = <<>>
    /\ w_call.pre.exists
    /\ fetched[w_call.name] = "no rows"
    /\ run_snap[w_call.name].exists

\* ------------------------------------------------------------------------
\* Properties of a run
\* ------------------------------------------------------------------------

RunEnded == pc \in {"done", "failed"}

FetchFailed(n) == fetched[n] \in {"timeout", "no rows"}

\* C7: send_email_digest is called at most once in a run, and the digest it
\* is given holds at least one site and only sites with at least one line.
NotifierOnlyWithOutput ==
    /\ notifier_calls <= 1
    /\ notifier_calls = 1 =>
          /\ \E n \in Names : notified_digest[n].present
          /\ \A n \in Names :
                notified_digest[n].present => notified_digest[n].lines # <<>>

\* C8: no snapshot is written once send_email_digest has been called, and
\* when it has been called, also when it raised, every snapshot replaced in
\* the run holds the fetched rows and every other one is as the run found it.
SnapshotsDurableBeforeNotify ==
    /\ pc \in WritePcs => notifier_calls = 0
    /\ notifier_calls > 0 =>
          /\ RunEnded
          /\ \A n \in Names :
                files[CsvPath(n)] = IF n \in saved THEN Written(scraped[n].rows)
                                    ELSE run_snap[n]

\* C8 witness: send_email_digest raised in a run that had replaced a snapshot.
NotifierFailureWitness ==
    /\ pc = "failed"
    /\ notifier_calls = 1
    /\ \E n \in saved : run_snap[n].exists /\ files[CsvPath(n)] # run_snap[n]

\* The effects of a failed fetch of site n on the rest of the run.
FailureIsolated(n) ==
    /\ \A m \in Names \ {n} :
          /\ fetched[m] # "pending"
          /\ fetched[m] = "ok" => m \in processed
    /\ files[CsvPath(n)] = run_snap[n]
    /\ ~digest_by_name[n].present
    /\ n \notin processed

DiffFound(n) ==
    /\ read_csv_if_exists(run_snap[n]) # <<>>
    /\ fetched[n] = "ok"
    /\ diffed[n].called
    /\ diffed[n].out # NoDiff

\* C10: after a run that found a new or updated entry for a site, the site's
\* snapshot is the fetched row set and nothing else, and the site has output
\* in the digest.
WholesaleReplacementWithOutput ==
    \A n \in Names :
        (RunEnded /\ DiffFound(n))
            => /\ files[CsvPath(n)] = Written(scraped[n].rows)
               /\ read_csv_if_exists(files[CsvPath(n)]) = scraped[n].rows
               /\ digest_by_name[n].present
               /\ digest_by_name[n].lines # <<>>

\* The part of C10 that the code keeps: the snapshot is replaced by the
\* fetched row set, which is read back from it when the table has headers,
\* and the site has an entry in the digest.
SnapshotReplacedWholesale ==
    \A n \in Names :
        (RunEnded /\ DiffFound(n))
            => /\ files[CsvPath(n)] = Written(scraped[n].rows)
               /\ scraped[n].headers # <<>>
                     => read_csv_if_exists(files[CsvPath(n)]) = scraped[n].rows
               /\ digest_by_name[n].present

\* ------------------------------------------------------------------------
\* Properties of two consecutive runs
\* ------------------------------------------------------------------------

\* The run before this one replaced (or created) the snapshot of site n from
\* a fetched table, and this run has fetched the same table for n.
SameFetchAgain(n) ==
    /\ last_saved[n].ok
    /\ fetched[n] = "ok"
    /\ scraped[n] = last_saved[n]

\* write_csv_atomic has been called on the snapshot of site n in this run.
Rewrites(n) ==
    \/ n \in saved
    \/ pc \in WritePcs \cup {"crashed"} /\ w_call.caller = "main" /\ w_call.name = n

\* Site n leaves no trace in this run: no new and no updated entry, no write
\* of its snapshot, no digest entry, and no call of send_email_digest when
\* no other site has a new or an updated entry.
NothingToReport(n) ==
    /\ diffed[n].out = NoDiff
    /\ ~Rewrites(n)
    /\ files[CsvPath(n)] = run_snap[n]
    /\ ~digest_by_name[n].present
    /\ (RunEnded /\ \A m \in Names \ {n} : diffed[m].out = NoDiff)
          => notifier_calls = 0 /\ ~any_changes

\* C11: a run that fetches for a site the row set from which the run before
\* it created or replaced the site's snapshot finds no new and no updated
\* entry for the site, does not write the snapshot, adds no digest entry for
\* the site and, when no other site changed, does not call the notifier.
RunLevelIdempotence ==
    \A n \in Names : SameFetchAgain(n) => NothingToReport(n)

\* The part of C11 that the code keeps: the same holds for every table that
\* has at least one header, and a table without headers is diffed and
\* reported in neither run.
RunLevelIdempotenceWithHeaders ==
    \A n \in Names :
        SameFetchAgain(n) =>
            /\ scraped[n].headers # <<>> => NothingToReport(n)
            /\ scraped[n].headers = <<>>
                  => /\ read_csv_if_exists(run_snap[n]) = <<>>
                     /\ ~diffed[n].called
                     /\ ~digest_by_name[n].present

\* A run has ended in which a site with headers was fetched as in the run
\* before, which had reported a change of that site, and was handled by the
\* loop of main.
SameFetchHandled ==
    \E n \in Names :
        /\ RunEnded
        /\ SameFetchAgain(n)
        /\ scraped[n].headers # <<>>
        /\ n \in processed
        /\ diffed[n].called

====
